---- MODULE Spec2Model ----
(***************************************************************************)
(* Watchdog uptime monitor: the monitoring engine (per-node interval       *)
(* timers), the check executor (probe, sample, failure-state machine) and  *)
(* the node service's lifecycle operations, as one state machine.          *)
(*                                                                         *)
(* The program is single-threaded JavaScript: code between two awaits runs *)
(* atomically.  Every awaited repository call is one step (the store       *)
(* performs the operation); where the code that follows the await touches  *)
(* the timer registry or starts a probe, that continuation is a step of    *)
(* its own, so that other callbacks may run between the store operation    *)
(* and the continuation, as they can in the program.                       *)
(***************************************************************************)
EXTENDS Naturals, FiniteSets, Sequences, Bags, TLC

(* ------------------------------ bounds -------------------------------- *)
\* node ids ever generated
MaxNodes == 2
\* nodes created under Spec, which explores every interleaving of one node's
\* callbacks and calls
MaxFullNodes == 1
\* largest failure_threshold a request carries (the validator allows 1..10)
MaxThreshold == 3
\* samples persisted per node before its timer and manual checks stop
MaxSamples == 2
\* the same under SpecSeq, where probes run one at a time
MaxSeqSamples == 6
\* executeCheck runs (tick callbacks and manual checks) in flight
MaxChecks == 2
\* node service calls in flight
MaxOps == 2
\* callbacks and calls in flight together
MaxInFlight == 3
\* samples persisted per node under SpecEngine, which has two nodes
MaxEngineSamples == 1
\* users that send requests
MaxUsers == 2
\* health check documents in the store getTelemetryBuckets is applied to
MaxBucketSamples == 3
\* largest bucketSeconds getTelemetryBuckets is called with there
MaxBucketSeconds == 2
\* half seconds by which the start of a train of samples is shifted
MaxTrainStart == 60
\* steps of the clock under SpecDashboard
MaxTicks == 4
\* samples persisted per node under SpecConfig
MaxConfigSamples == 3
\* samples persisted per node under SpecFailing
MaxFailSamples == 4

(* --------------------------- program constants ------------------------ *)
\* the smallest check_interval the validator accepts
MinCheckInterval == 15000
\* another accepted check_interval
LongCheckInterval == 60000
\* consecutive failures at which a node becomes warning
WarningFailures == 2

\* status_code of a sample whose fetch threw
NoStatus == 0
\* a status code among the default expected_status_codes
OkStatus == 200
\* a status code outside them (the largest the validator accepts)
ErrorStatus == 599
\* milliseconds in a second: bucketMs = bucketSeconds * 1000
MsPerSecond == 1000
\* the bucketSeconds getTelemetryBuckets takes when it is given none
DefaultBucketSeconds == 30
\* DASHBOARD_CACHE_TTL, in seconds
DashboardCacheTtl == 30

\* the expected_status_codes a node is created with
ExpectedStatusCodes == {OkStatus}

NodeIds == 1..MaxNodes
Users == 1..MaxUsers
\* the user whose nodes and requests the specifications of the engine follow
Owner == CHOOSE u \in Users : \A v \in Users : u <= v
Thresholds == 1..MaxThreshold
Intervals == {MinCheckInterval, LongCheckInterval}

VARIABLES
  nodes,     \* Node store: node id -> document, NullDoc when there is none
  samples,   \* Sample store: node id -> number of health check documents
  nextId,    \* the next node id generateId returns (ids are never reused)
  timers,    \* MonitoringEngine.timers: node id -> Timeout id, 0 when absent
  live,      \* the interval timers of the runtime that are not cleared
  stopped,   \* history: nodes whose last registry operation was stopNode
  checks,    \* bag of tick callbacks and manual checks in flight
  ops,       \* bag of node service calls in flight
  phase,     \* "start" | "booting" | "up" | "down" (after stopAll)
  bootSnap,  \* the result of findActiveNodes() while start() awaits it
  healthChecks, \* Sample store: the documents the telemetry reads, in order
                \* of insertion (node_id, created_at in ms, success)
  buckets,   \* the last getTelemetryBuckets call and what it returned, as a
             \* sequence of at most one record
  cache,     \* CacheService: key (user) -> the value set and when it expires
  now,       \* Date.now(), in ms
  overview   \* the last getOverview call and what it returned, likewise

\* the state of the telemetry and of the dashboard, which the engine and the
\* node service neither read nor write
aux == <<healthChecks, buckets, cache, now, overview>>

vars == <<nodes, samples, nextId, timers, live, stopped, checks, ops, phase, bootSnap, aux>>

(* ------------------------------ documents ----------------------------- *)
\* last_check_at is "null" or "date": the model keeps whether it was written
NullDoc ==
  [user_id |-> 0, status |-> "null", consecutive_failures |-> 0,
   failure_threshold |-> 0, check_interval |-> 0, last_check_at |-> "null",
   expected_status_codes |-> {}]

NewDoc(u, ft, ci) ==
  [user_id |-> u, status |-> "active", consecutive_failures |-> 0,
   failure_threshold |-> ft, check_interval |-> ci, last_check_at |-> "null",
   expected_status_codes |-> ExpectedStatusCodes]

\* What the tick callback and executeCheck read of the document they hold:
\* status (the callback's paused test), expected_status_codes (the test of
\* the response), consecutive_failures > 0 (the success branch) and
\* failure_threshold (the failure branch).
CheckDoc(doc) ==
  [status |-> doc.status, had_failures |-> doc.consecutive_failures > 0,
   failure_threshold |-> doc.failure_threshold,
   expected_status_codes |-> doc.expected_status_codes]

NullCheckDoc == CheckDoc(NullDoc)

\* The same with the fields outside F, which the rest of the run never reads,
\* blanked.
Keep(snap, F) ==
  [f \in DOMAIN snap |-> IF f \in F THEN snap[f] ELSE NullCheckDoc[f]]

(* --------------------------- node repository -------------------------- *)
findById(db, id) == db[id]

\* findByIdAndUser whose filter leaves the user out
findByIdAnyUser(db, id, u) == db[id]

findByIdAndUser(db, id, u) ==
  IF db[id] # NullDoc /\ db[id].user_id = u THEN db[id] ELSE NullDoc

\* a query for every node that is not paused
findMonitoredNodes(db) ==
  {id \in NodeIds : db[id] # NullDoc /\ db[id].status # "paused"}

findActiveNodes(db) == {id \in NodeIds : db[id].status = "active"}

updateStatus(db, id, st) ==
  IF db[id] = NullDoc THEN db ELSE [db EXCEPT ![id].status = st]

\* updateStatus(id, 'active') without the extra consecutive_failures: 0
updateStatusResumeKeep(db, id) ==
  IF db[id] = NullDoc THEN db ELSE [db EXCEPT ![id].status = "active"]

updateStatusResume(db, id) ==
  IF db[id] = NullDoc THEN db
  ELSE [db EXCEPT ![id].status = "active", ![id].consecutive_failures = 0]

\* updateStatus(id, 'active', { last_check_at: new Date() })
updateStatusChecked(db, id) ==
  IF db[id] = NullDoc THEN db
  ELSE [db EXCEPT ![id].status = "active", ![id].last_check_at = "date"]

\* a counter that stops at the node's failure_threshold
incrementFailuresCapped(db, id) ==
  IF db[id] = NullDoc THEN db
  ELSE [db EXCEPT ![id].consecutive_failures =
                    IF @ < db[id].failure_threshold THEN @ + 1 ELSE @,
                  ![id].last_check_at = "date"]
incrementFailures(db, id) ==
  IF db[id] = NullDoc THEN db
  ELSE [db EXCEPT ![id].consecutive_failures = @ + 1,
                  ![id].last_check_at = "date"]

resetFailures(db, id) ==
  IF db[id] = NullDoc THEN db
  ELSE [db EXCEPT ![id].status = "active", ![id].consecutive_failures = 0,
                  ![id].last_check_at = "date"]

\* an update that also clears the failure counter when it is given a
\* failure_threshold
repoUpdateResetting(db, id, u, ft, ci, codes) ==
  IF findByIdAndUser(db, id, u) = NullDoc THEN db
  ELSE [db EXCEPT
          ![id].failure_threshold = IF ft # 0 THEN ft ELSE @,
          ![id].check_interval = IF ci # 0 THEN ci ELSE @,
          ![id].expected_status_codes = IF codes # {} THEN codes ELSE @,
          ![id].consecutive_failures = IF ft # 0 THEN 0 ELSE @]

\* update(id, userId, data): $set of the fields data carries (ft, ci = 0
\* and codes = {} stand for a field it does not carry) on the document of
\* that id and user
repoUpdate(db, id, u, ft, ci, codes) ==
  IF findByIdAndUser(db, id, u) = NullDoc THEN db
  ELSE [db EXCEPT
          ![id].failure_threshold = IF ft # 0 THEN ft ELSE @,
          ![id].check_interval = IF ci # 0 THEN ci ELSE @,
          ![id].expected_status_codes = IF codes # {} THEN codes ELSE @]

\* delete(id, userId): deleteOne of the document of that id and user
repoDelete(db, id, u) ==
  IF findByIdAndUser(db, id, u) = NullDoc THEN db
  ELSE [db EXCEPT ![id] = NullDoc]

(* --------------------------- monitoring engine ------------------------ *)
\* The engine's registry and the runtime's timers, as one value.
Eng == [timers |-> timers, live |-> live, stopped |-> stopped]

FreshTimer(lv) ==
  CHOOSE i \in 1..(Cardinality(lv) + 1) :
    /\ \A t \in lv : t.id # i
    /\ \A j \in 1..(Cardinality(lv) + 1) : (\A t \in lv : t.id # j) => i <= j

stopNode(E, id) ==
  IF E.timers[id] # 0
  THEN [timers |-> [E.timers EXCEPT ![id] = 0],
        live |-> {t \in E.live : t.id # E.timers[id]},
        stopped |-> E.stopped \cup {id}]
  ELSE [E EXCEPT !.stopped = @ \cup {id}]

\* startNode without the cancellation of the timer it replaces
startNodeNoCancel(E, id, ci) ==
  LET tid == FreshTimer(E.live)
  IN [timers |-> [E.timers EXCEPT ![id] = tid],
      live |-> E.live \cup {[id |-> tid, node |-> id, period |-> ci]},
      stopped |-> E.stopped \ {id}]

\* setInterval returns a new Timeout, which is not the one just cleared
startNode(E, id, ci) ==
  LET E1 == IF E.timers[id] # 0 THEN stopNode(E, id) ELSE E
      tid == FreshTimer(E.live)
  IN [timers |-> [E1.timers EXCEPT ![id] = tid],
      live |-> E1.live \cup {[id |-> tid, node |-> id, period |-> ci]},
      stopped |-> E1.stopped \ {id}]

\* stopAll that clears the registry without clearInterval
stopAllKeepLive(E) ==
  [timers |-> [id \in NodeIds |-> 0], live |-> E.live, stopped |-> E.stopped]

stopAll(E) ==
  [timers |-> [id \in NodeIds |-> 0], live |-> {}, stopped |-> E.stopped]

isMonitoring(E, id) == E.timers[id] # 0

activeCount == Cardinality({id \in NodeIds : timers[id] # 0})

SetEng(E) ==
  /\ timers' = E.timers
  /\ live' = E.live
  /\ stopped' = E.stopped

(* ------------------------------- helpers ------------------------------ *)
One(x) == SetToBag({x})

ChecksOf(id) == {c \in BagToSet(checks) : c.node = id}

\* checks of the node that have not yet written their sample
Unsampled(id) ==
  BagCardinality([c \in {x \in ChecksOf(id) : x.pc \in {"read", "got", "fetch"}}
                    |-> checks[c]])

\* the bounds on checks: at most mc in flight, at most ms samples per node
CanCheck(id, mc, ms) ==
  /\ BagCardinality(checks) < mc
  /\ BagCardinality(checks) + BagCardinality(ops) < MaxInFlight
  /\ samples[id] + Unsampled(id) < ms

\* requests are served once start() has run and until shutdown
CanCall ==
  /\ phase = "up"
  /\ BagCardinality(ops) < MaxOps
  /\ BagCardinality(checks) + BagCardinality(ops) < MaxInFlight

\* the ids a client can name: those a create call has returned
Known == {id \in 1..(nextId - 1) :
            \A o \in BagToSet(ops) : ~(o.kind = "create" /\ o.node = id)}

\* A node service call in flight: its userId and nodeId arguments, and what
\* it holds of the document the store returned (found: there was one), as far
\* as the rest of the call reads it.
Op(kind, u, id, pc, found, status, ci) ==
  [kind |-> kind, user |-> u, node |-> id, pc |-> pc, found |-> found,
   status |-> status, check_interval |-> ci]

\* no report: what the cache returns for a key it does not hold
NoReport == [services |-> {}, status_overview |-> <<>>, timestamp |-> 0]

\* the stores are empty, the engine and the node service are constructed
InitEngine ==
  /\ nodes = [id \in NodeIds |-> NullDoc]
  /\ samples = [id \in NodeIds |-> 0]
  /\ nextId = 1
  /\ timers = [id \in NodeIds |-> 0]
  /\ live = {}
  /\ stopped = {}
  /\ checks = EmptyBag
  /\ ops = EmptyBag
  /\ phase = "start"
  /\ bootSnap = {}

\* no telemetry call yet, the cache is new
InitDashboard ==
  /\ buckets = <<>>
  /\ cache = <<>>
  /\ overview = <<>>

Init ==
  /\ InitEngine
  /\ InitDashboard
  /\ healthChecks = <<>>
  /\ now = 0

(* ------------------- MonitoringEngine.start / stopAll ------------------ *)
\* the entrypoint as it stands: the database is connected and the server
\* listens, and the engine is not started
Listen ==
  /\ phase = "start"
  /\ phase' = "up"
  /\ UNCHANGED <<nodes, samples, nextId, timers, live, stopped, checks, ops,
                 bootSnap, aux>>

\* start(): await findActiveNodes()
BootRead ==
  /\ phase = "start"
  /\ phase' = "booting"
  /\ bootSnap' = {<<id, nodes[id].check_interval>> : id \in findActiveNodes(nodes)}
  /\ UNCHANGED <<nodes, samples, nextId, timers, live, stopped, checks, ops, aux>>

RECURSIVE StartEach(_, _)
StartEach(E, S) ==
  IF S = {} THEN E
  ELSE LET p == CHOOSE q \in S : \A r \in S : q[1] <= r[1]
       IN StartEach(startNode(E, p[1], p[2]), S \ {p})

\* start(): the loop over the nodes read
BootStart ==
  /\ phase = "booting"
  /\ phase' = "up"
  /\ SetEng(StartEach(Eng, bootSnap))
  /\ bootSnap' = {}
  /\ UNCHANGED <<nodes, samples, nextId, checks, ops, aux>>

\* graceful shutdown: stopAll()
StopAll ==
  /\ phase = "up"
  /\ phase' = "down"
  /\ SetEng(stopAll(Eng))
  /\ UNCHANGED <<nodes, samples, nextId, checks, ops, bootSnap, aux>>

\* the process exits (after stopAll, or on a signal without it) and a new one
\* is constructed: the stores persist, the callbacks and calls of the old
\* process are gone
Restart ==
  /\ phase \in {"up", "down"}
  /\ phase' = "start"
  /\ timers' = [id \in NodeIds |-> 0]
  /\ live' = {}
  /\ stopped' = {}
  /\ checks' = EmptyBag
  /\ ops' = EmptyBag
  /\ cache' = <<>>
  /\ UNCHANGED <<nodes, samples, nextId, bootSnap, healthChecks, buckets, now, overview>>

(* ----------------------------- NodeService ---------------------------- *)
\* create: await nodeRepository.create(...)
CreateNode(u, ft, ci) ==
  /\ CanCall
  /\ nextId <= MaxNodes
  /\ nodes' = [nodes EXCEPT ![nextId] = NewDoc(u, ft, ci)]
  /\ nextId' = nextId + 1
  /\ ops' = ops (+) One(Op("create", u, nextId, "start", TRUE, "active", ci))
  /\ UNCHANGED <<samples, timers, live, stopped, checks, phase, bootSnap, aux>>

\* a create that runs the first check at once instead of waiting for the
\* first tick
CreateStartProbing(o) ==
  /\ o.kind = "create"
  /\ SetEng(startNode(Eng, o.node, o.check_interval))
  /\ ops' = ops (-) One(o)
  /\ checks' = checks (+) One([kind |-> "tick", node |-> o.node, pc |-> "read",
                               snap |-> NullCheckDoc, success |-> FALSE])
  /\ UNCHANGED <<nodes, samples, nextId, phase, bootSnap, aux>>

\* create: monitoringEngine.startNode(node)
CreateStart(o) ==
  /\ o.kind = "create"
  /\ SetEng(startNode(Eng, o.node, o.check_interval))
  /\ ops' = ops (-) One(o)
  /\ UNCHANGED <<nodes, samples, nextId, checks, phase, bootSnap, aux>>

\* An update call in flight: the document the store returned, and (history,
\* which the call does not hold) whether the write changed check_interval.
UpdateOp(u, id, doc, changed) ==
  Op("update", u, id, "cont", doc # NullDoc, doc.status, doc.check_interval)
    @@ [changed |-> changed]

\* update: await nodeRepository.update(nodeId, userId, updateData);
\* ft, ci = 0 and codes = {} stand for a field the request does not carry
\* (a request with an empty expected_status_codes is left out)
UpdateWriteData(u, id, ft, ci, codes) ==
  /\ CanCall
  /\ id \in Known
  /\ nodes' = repoUpdate(nodes, id, u, ft, ci, codes)
  /\ ops' = ops (+) One(UpdateOp(u, id, findByIdAndUser(nodes', id, u),
                                 nodes'[id].check_interval # nodes[id].check_interval))
  /\ UNCHANGED <<samples, nextId, timers, live, stopped, checks, phase, bootSnap, aux>>

\* the same for a request without expected_status_codes
UpdateWrite(u, id, ft, ci) == UpdateWriteData(u, id, ft, ci, {})

\* update: restart the timer of an active, monitored node
UpdateCont(o) ==
  /\ o.kind = "update"
  /\ IF o.found /\ o.status = "active" /\ isMonitoring(Eng, o.node)
     THEN SetEng(startNode(Eng, o.node, o.check_interval))
     ELSE UNCHANGED <<timers, live, stopped>>
  /\ ops' = ops (-) One(o)
  /\ UNCHANGED <<nodes, samples, nextId, checks, phase, bootSnap, aux>>

\* delete: await nodeRepository.delete(nodeId, userId)
DeleteWrite(u, id) ==
  /\ CanCall
  /\ id \in Known
  /\ nodes' = repoDelete(nodes, id, u)
  /\ ops' = ops (+) One(Op("delete", u, id, "stop", nodes' # nodes, "null", 0))
  /\ UNCHANGED <<samples, nextId, timers, live, stopped, checks, phase, bootSnap, aux>>

\* delete: not found, or stopNode and the call of deleteByNode
DeleteStop(o) ==
  /\ o.kind = "delete" /\ o.pc = "stop"
  /\ IF o.found
     THEN /\ SetEng(stopNode(Eng, o.node))
          /\ ops' = (ops (-) One(o)) (+) One([o EXCEPT !.pc = "samples"])
     ELSE /\ ops' = ops (-) One(o)
          /\ UNCHANGED <<timers, live, stopped>>
  /\ UNCHANGED <<nodes, samples, nextId, checks, phase, bootSnap, aux>>

\* delete: await healthCheckRepository.deleteByNode(nodeId)
DeleteSamples(o) ==
  /\ o.kind = "delete" /\ o.pc = "samples"
  /\ samples' = [samples EXCEPT ![o.node] = 0]
  /\ ops' = ops (-) One(o)
  /\ UNCHANGED <<nodes, nextId, timers, live, stopped, checks, phase, bootSnap, aux>>

\* pause: await nodeRepository.findByIdAndUser(nodeId, userId)
PauseRead(u, id) ==
  /\ CanCall
  /\ id \in Known
  /\ LET node == findByIdAndUser(nodes, id, u)
     IN ops' = ops (+) One(Op("pause", u, id, "write", node # NullDoc, node.status, 0))
  /\ UNCHANGED <<nodes, samples, nextId, timers, live, stopped, checks, phase, bootSnap, aux>>

\* pause that takes a paused node like any other
pauseResultLenient(found, status) ==
  IF ~found THEN "NODE_NOT_FOUND" ELSE "NODE_PAUSED"

\* pause: the message key the call returns, given what its read returned
pauseResult(found, status) ==
  IF ~found THEN "NODE_NOT_FOUND"
  ELSE IF status = "paused" THEN "NODE_ALREADY_PAUSED"
  ELSE "NODE_PAUSED"

\* pause: the two error returns, or await updateStatus(nodeId, 'paused')
PauseWrite(o) ==
  /\ o.kind = "pause" /\ o.pc = "write"
  /\ IF pauseResult(o.found, o.status) # "NODE_PAUSED"
     THEN /\ ops' = ops (-) One(o)
          /\ UNCHANGED nodes
     ELSE /\ nodes' = updateStatus(nodes, o.node, "paused")
          /\ ops' = (ops (-) One(o)) (+) One([o EXCEPT !.pc = "stop"])
  /\ UNCHANGED <<samples, nextId, timers, live, stopped, checks, phase, bootSnap, aux>>

\* pause: monitoringEngine.stopNode(nodeId)
PauseStop(o) ==
  /\ o.kind = "pause" /\ o.pc = "stop"
  /\ SetEng(stopNode(Eng, o.node))
  /\ ops' = ops (-) One(o)
  /\ UNCHANGED <<nodes, samples, nextId, checks, phase, bootSnap, aux>>

\* resume: await nodeRepository.findByIdAndUser(nodeId, userId)
ResumeRead(u, id) ==
  /\ CanCall
  /\ id \in Known
  /\ LET node == findByIdAndUser(nodes, id, u)
     IN ops' = ops (+) One(Op("resume", u, id, "write", node # NullDoc, node.status,
                             node.check_interval))
  /\ UNCHANGED <<nodes, samples, nextId, timers, live, stopped, checks, phase, bootSnap, aux>>

\* resume: the message key the call returns, given what its read returned
resumeResult(found, status) ==
  IF ~found THEN "NODE_NOT_FOUND"
  ELSE IF status = "active" THEN "NODE_ALREADY_ACTIVE"
  ELSE "NODE_RESUMED"

\* resume: the two error returns, or await updateStatus(nodeId, 'active',
\* { consecutive_failures: 0 })
ResumeWrite(o) ==
  /\ o.kind = "resume" /\ o.pc = "write"
  /\ IF resumeResult(o.found, o.status) # "NODE_RESUMED"
     THEN /\ ops' = ops (-) One(o)
          /\ UNCHANGED nodes
     ELSE /\ nodes' = updateStatusResume(nodes, o.node)
          /\ ops' = (ops (-) One(o)) (+) One([o EXCEPT !.pc = "start"])
  /\ UNCHANGED <<samples, nextId, timers, live, stopped, checks, phase, bootSnap, aux>>

\* resume: monitoringEngine.startNode(node), node being the document read
ResumeStart(o) ==
  /\ o.kind = "resume" /\ o.pc = "start"
  /\ SetEng(startNode(Eng, o.node, o.check_interval))
  /\ ops' = ops (-) One(o)
  /\ UNCHANGED <<nodes, samples, nextId, checks, phase, bootSnap, aux>>

(* ---------------------- testCheck / testConnection -------------------- *)
\* testCheck: await nodeRepository.findByIdAndUser(nodeId, userId)
TestCheckRead(u, id) ==
  /\ CanCall
  /\ id \in Known
  /\ ops' = ops (+) One(Op("test", u, id, "fetch",
                          findByIdAndUser(nodes, id, u) # NullDoc, "null", 0))
  /\ UNCHANGED <<nodes, samples, nextId, timers, live, stopped, checks, phase, bootSnap, aux>>

\* testConnection: executeHttpCheck is called with the request's own
\* configuration; no node is read (node 0)
TestConnection ==
  /\ CanCall
  /\ ops' = ops (+) One(Op("connection", 0, 0, "fetch", TRUE, "null", 0))
  /\ UNCHANGED <<nodes, samples, nextId, timers, live, stopped, checks, phase, bootSnap, aux>>

\* a test call that writes a health check document as a scheduled check does
HttpCheckDoneSampling(o, outcome) ==
  /\ o.kind \in {"test", "connection"}
  /\ ops' = ops (-) One(o)
  /\ samples' = [id \in NodeIds |-> IF id = o.node /\ o.found
                                    THEN samples[id] + 1 ELSE samples[id]]
  /\ UNCHANGED <<nodes, nextId, timers, live, stopped, checks, phase, bootSnap, aux>>

\* testCheck / testConnection: not found, or executeHttpCheck resolves
\* (outcome "response", any status code) or throws, and the call returns
HttpCheckDone(o, outcome) ==
  /\ o.kind \in {"test", "connection"}
  /\ ops' = ops (-) One(o)
  /\ UNCHANGED <<nodes, samples, nextId, timers, live, stopped, checks, phase, bootSnap, aux>>

(* -------------------- tick callback and executeCheck ------------------ *)
Check(kind, id, pc, snap, success) ==
  [kind |-> kind, node |-> id, pc |-> pc, snap |-> snap, success |-> success]

\* a probe is in flight from the call of executeCheck to the end of fetch
InFlight(id) == {c \in ChecksOf(id) : c.pc = "fetch"}

NumInFlight(id) == BagCardinality([c \in InFlight(id) |-> checks[c]])

\* setInterval fires: the callback starts and awaits findById(node.id); the
\* engine keeps no record of the callbacks it has started, so the tick of a
\* live timer is never skipped
TickFire(t) ==
  /\ t \in live
  /\ checks' = checks (+) One(Check("tick", t.node, "read", NullCheckDoc, FALSE))
  /\ UNCHANGED <<nodes, samples, nextId, timers, live, stopped, ops, phase, bootSnap, aux>>

\* the store answers the callback's findById
CheckRead(c) ==
  /\ c.pc = "read"
  /\ checks' = (checks (-) One(c))
                 (+) One([c EXCEPT !.pc = "got", !.snap = CheckDoc(findById(nodes, c.node))])
  /\ UNCHANGED <<nodes, samples, nextId, timers, live, stopped, ops, phase, bootSnap, aux>>

\* triggerManualCheck: await findById(serviceId); the call returns
\* UNAUTHORIZED when the node is another user's
ManualRead(u, id) ==
  /\ phase = "up"
  /\ id \in Known
  /\ CanCheck(id, MaxChecks, MaxSamples)
  /\ LET node == findById(nodes, id)
     IN checks' = IF node # NullDoc /\ node.user_id # u
                  THEN checks
                  ELSE checks (+) One(Check("manual", id, "got", CheckDoc(node), FALSE))
  /\ UNCHANGED <<nodes, samples, nextId, timers, live, stopped, ops, phase, bootSnap, aux>>

\* a callback that goes on to probe a node it read as paused
SkipsMissingOnly(c) == c.snap = NullCheckDoc
\* whether the code after the read returns without calling executeCheck
Skips(c) ==
  IF c.kind = "tick"
  THEN c.snap = NullCheckDoc \/ c.snap.status = "paused"
  ELSE c.snap = NullCheckDoc

\* the code after the read: return (a tick callback first stops the node's
\* timer), or call executeCheck, which runs up to its fetch
CheckCont(c) ==
  /\ c.pc = "got"
  /\ IF Skips(c)
     THEN /\ checks' = checks (-) One(c)
          /\ IF c.kind = "tick"
             THEN SetEng(stopNode(Eng, c.node))
             ELSE UNCHANGED <<timers, live, stopped>>
     ELSE /\ checks' = (checks (-) One(c))
                         (+) One([c EXCEPT !.pc = "fetch",
                                    !.snap = Keep(@, {"had_failures", "failure_threshold",
                                                     "expected_status_codes"})])
          /\ UNCHANGED <<timers, live, stopped>>
  /\ UNCHANGED <<nodes, samples, nextId, ops, phase, bootSnap, aux>>

\* fetch ends (success: the status is one of expected_status_codes) and
\* await healthCheckRepository.create(...)
ProbeDone(c, success) ==
  /\ c.pc = "fetch"
  /\ samples' = [samples EXCEPT ![c.node] = @ + 1]
  /\ checks' = (checks (-) One(c))
                 (+) One([c EXCEPT !.pc = "apply", !.success = success,
                            !.snap = Keep(@, IF success THEN {"had_failures"}
                                             ELSE {"failure_threshold"})])
  /\ UNCHANGED <<nodes, nextId, timers, live, stopped, ops, phase, bootSnap, aux>>

\* a probe that tests the response against the codes a node is created with
probeOutcomeDefault(node, fetched, status, body) ==
  IF fetched = "throws"
  THEN [status_code |-> NoStatus, success |-> FALSE]
  ELSE [status_code |-> status, success |-> status \in ExpectedStatusCodes]

\* What executeCheck records of its fetch for the node it was handed:
\* fetched is "throws" (fetch rejected: DNS, connection, TLS, timeout before
\* the response) or "response"
\* with its status; body is "read" or "throws" (response.text() rejected).
\* The catch around response.text() only replaces the captured body text, so
\* body has no part in status_code and success.
probeOutcome(node, fetched, status, body) ==
  IF fetched = "throws"
  THEN [status_code |-> NoStatus, success |-> FALSE]
  ELSE [status_code |-> status, success |-> status \in node.expected_status_codes]

\* ProbeDone with the success flag executeCheck computes from its fetch
Probe(c, fetched, status, body) ==
  ProbeDone(c, probeOutcome(c.snap, fetched, status, body).success)

\* the store after the success branch of executeCheck
successUpdate(db, id, snap) ==
  IF snap.had_failures
  THEN resetFailures(db, id)
  ELSE updateStatusChecked(db, id)

\* executeCheck, success: resetFailures or updateStatus('active')
ApplySuccess(c) ==
  /\ c.pc = "apply" /\ c.success
  /\ nodes' = successUpdate(nodes, c.node, c.snap)
  /\ checks' = checks (-) One(c)
  /\ UNCHANGED <<samples, nextId, timers, live, stopped, ops, phase, bootSnap, aux>>

\* the status executeCheck writes after incrementFailures returned `updated`
\* ("none": no write), node being the document the check was started with
\* failureStatus testing for warning before it tests for down
failureStatusWarningFirst(updated, node) ==
  IF /\ updated # NullDoc
     /\ updated.consecutive_failures >= WarningFailures
     /\ updated.status # "warning"
  THEN "warning"
  ELSE IF updated # NullDoc /\ updated.consecutive_failures >= node.failure_threshold
       THEN IF updated.status # "down" THEN "down" ELSE "none"
       ELSE "none"

\* failureStatus going down only once the counter is past the threshold
failureStatusPast(updated, node) ==
  IF updated # NullDoc /\ updated.consecutive_failures > node.failure_threshold
  THEN IF updated.status # "down" THEN "down" ELSE "none"
  ELSE IF /\ updated # NullDoc
          /\ updated.consecutive_failures >= WarningFailures
          /\ updated.status # "warning"
       THEN "warning"
       ELSE "none"

failureStatus(updated, node) ==
  IF updated # NullDoc /\ updated.consecutive_failures >= node.failure_threshold
  THEN IF updated.status # "down" THEN "down" ELSE "none"
  ELSE IF /\ updated # NullDoc
          /\ updated.consecutive_failures >= WarningFailures
          /\ updated.status # "warning"
       THEN "warning"
       ELSE "none"

\* executeCheck, failure: await incrementFailures(node.id), then the choice
\* of the status to write
ApplyFailure(c) ==
  /\ c.pc = "apply" /\ ~c.success
  /\ nodes' = incrementFailures(nodes, c.node)
  /\ LET st == failureStatus(nodes'[c.node], c.snap)
     IN checks' = IF st = "none"
                  THEN checks (-) One(c)
                  ELSE (checks (-) One(c))
                         (+) One([c EXCEPT !.pc = st, !.snap = NullCheckDoc])
  /\ UNCHANGED <<samples, nextId, timers, live, stopped, ops, phase, bootSnap, aux>>

\* executeCheck, failure: await updateStatus(node.id, 'down' | 'warning')
SetStatus(c) ==
  /\ c.pc \in {"down", "warning"}
  /\ nodes' = updateStatus(nodes, c.node, c.pc)
  /\ checks' = checks (-) One(c)
  /\ UNCHANGED <<samples, nextId, timers, live, stopped, ops, phase, bootSnap, aux>>

\* the store calls a check awaits: findById, healthCheckRepository.create
\* (after the fetch), resetFailures / updateStatus / incrementFailures, and
\* updateStatus('down' | 'warning')
AtStoreCall(c) == c.pc \in {"read", "fetch", "apply", "down", "warning"}

\* a callback whose catch also clears the node's timer
CheckThrowsStopping(c) ==
  /\ AtStoreCall(c)
  /\ checks' = checks (-) One(c)
  /\ SetEng(stopNode(Eng, c.node))
  /\ UNCHANGED <<nodes, samples, nextId, ops, phase, bootSnap, aux>>

\* the store call a check awaits rejects: the error leaves executeCheck and
\* is caught and logged by the tick callback (by triggerManualCheck for a
\* manual check), which returns
CheckThrows(c) ==
  /\ AtStoreCall(c)
  /\ checks' = checks (-) One(c)
  /\ UNCHANGED <<nodes, samples, nextId, timers, live, stopped, ops, phase, bootSnap, aux>>

(* ------------------------- getById and results ------------------------ *)
\* getById: await nodeRepository.findByIdAndUser(nodeId, userId)
GetRead(u, id) ==
  /\ CanCall
  /\ id \in Known
  /\ ops' = ops (+) One(Op("get", u, id, "return",
                          findByIdAndUser(nodes, id, u) # NullDoc, "null", 0))
  /\ UNCHANGED <<nodes, samples, nextId, timers, live, stopped, checks, phase, bootSnap, aux>>

\* getById: not found, or the reads of the node's samples, and the call
\* returns
GetDone(o) ==
  /\ o.kind = "get"
  /\ ops' = ops (-) One(o)
  /\ UNCHANGED <<nodes, samples, nextId, timers, live, stopped, checks, phase, bootSnap, aux>>

\* the message key a call returns, given what its store call returned
getResult(found) == IF ~found THEN "NODE_NOT_FOUND" ELSE "NODE_FETCHED"

updateResult(found) == IF ~found THEN "NODE_NOT_FOUND" ELSE "NODE_UPDATED"

deleteResult(found) == IF ~found THEN "NODE_NOT_FOUND" ELSE "NODE_DELETED"

\* testCheck: outcome is that of executeHttpCheck, "response" or "throws"
testResult(found, outcome) ==
  IF ~found THEN "NODE_NOT_FOUND"
  ELSE IF outcome = "throws" THEN "NODE_TEST_FAILED" ELSE "NODE_TEST_SUCCESS"

(* ------------------------------ telemetry ----------------------------- *)
\* a health check document, as far as the telemetry reads it
HealthCheck(id, t, ok) == [node_id |-> id, created_at |-> t, success |-> ok]

\* $match that takes the documents created after since only
MatchedAfter(hc, nodeIds, since) ==
  {i \in DOMAIN hc : hc[i].node_id \in nodeIds /\ hc[i].created_at > since}

\* $match: node_id in nodeIds, created_at >= since
Matched(hc, nodeIds, since) ==
  {i \in DOMAIN hc : hc[i].node_id \in nodeIds /\ hc[i].created_at >= since}

\* a group key that is the remainder alone
bucketKeyRemainder(t, bucketMs) == t % bucketMs

\* $group _id: created_at - (created_at mod bucketMs), in ms
bucketKey(t, bucketMs) == t - (t % bucketMs)

\* $sort { _id: 1 }
RECURSIVE sortAsc(_)
sortAsc(S) ==
  IF S = {} THEN <<>>
  ELSE LET m == CHOOSE x \in S : \A y \in S : x <= y
       IN <<m>> \o sortAsc(S \ {m})

\* getTelemetryBuckets: one record for each key a matched document has, in
\* ascending order of the key; the averages of response_time are left out
getTelemetryBuckets(hc, nodeIds, since, bucketSeconds) ==
  LET bucketMs == bucketSeconds * MsPerSecond
      matched == Matched(hc, nodeIds, since)
      keyOf(i) == bucketKey(hc[i].created_at, bucketMs)
      ids == sortAsc({keyOf(i) : i \in matched})
  IN [j \in DOMAIN ids |->
        [timestamp |-> ids[j],
         total_checks |-> Cardinality({i \in matched : keyOf(i) = ids[j]}),
         failed_checks |-> Cardinality({i \in matched : keyOf(i) = ids[j]
                                                         /\ ~hc[i].success})]]

\* a call of getTelemetryBuckets
Buckets(nodeIds, since, bucketSeconds) ==
  /\ buckets' = <<[node_ids |-> nodeIds, since |-> since,
                   bucket_seconds |-> bucketSeconds,
                   result |-> getTelemetryBuckets(healthChecks, nodeIds, since,
                                                  bucketSeconds)]>>
  /\ UNCHANGED <<nodes, samples, nextId, timers, live, stopped, checks, ops, phase,
                 bootSnap, healthChecks, cache, now, overview>>

(* ------------------------------ dashboard ----------------------------- *)
\* NodeCache.get: the value set under the key, until its time to live is over
cacheGet(c, key, t) ==
  IF key \in DOMAIN c /\ ~(c[key].t # 0 /\ c[key].t < t)
  THEN c[key].value
  ELSE NoReport

\* NodeCache.set: ttl in seconds, 0 for a value that never expires
cacheSet(c, key, value, ttl, t) ==
  [k \in DOMAIN c \cup {key} |->
     IF k = key
     THEN [value |-> value, t |-> IF ttl = 0 THEN 0 ELSE t + ttl * MsPerSecond]
     ELSE c[k]]

\* nodeRepository.list({ user_id }): the user's nodes
listByUser(db, u) == {id \in NodeIds : db[id] # NullDoc /\ db[id].user_id = u}

\* nodeRepository.countByUser: the user's nodes by status
countByUser(db, u) ==
  [st \in {"active", "down", "paused", "warning"} |->
     Cardinality({id \in listByUser(db, u) : db[id].status = st})]

\* services_overview: what the report shows of a node read by list, with the
\* number of its health checks
serviceOverview(db, n, id) == [id |-> id, status |-> db[id].status, checks |-> n[id]]

\* the report getOverview builds from the store at time t
Report(db, n, u, t) ==
  [services |-> {serviceOverview(db, n, id) : id \in listByUser(db, u)},
   status_overview |-> countByUser(db, u),
   timestamp |-> t]

\* a getOverview call in flight, with the parts of the report it has read
OverviewOp(u, pc, data) == Op("overview", u, 0, pc, TRUE, "null", 0) @@ [data |-> data]

\* getOverview: the cached report is returned, or await nodeRepository.list
OverviewCall(u) ==
  /\ CanCall
  /\ LET cached == cacheGet(cache, u, now)
     IN IF cached # NoReport
        THEN /\ overview' = <<[user |-> u, data |-> cached, cached |-> TRUE]>>
             /\ UNCHANGED ops
        ELSE /\ ops' = ops (+) One(OverviewOp(u, "list",
                         [NoReport EXCEPT !.services = {[id |-> id, status |-> nodes[id].status,
                                                          checks |-> 0] : id \in listByUser(nodes, u)}]))
             /\ UNCHANGED overview
  /\ UNCHANGED <<nodes, samples, nextId, timers, live, stopped, checks, phase,
                 bootSnap, healthChecks, buckets, cache, now>>

\* getOverview: await nodeRepository.countByUser(userId)
OverviewCounts(o) ==
  /\ o.kind = "overview" /\ o.pc = "list"
  /\ ops' = (ops (-) One(o))
              (+) One([o EXCEPT !.pc = "counts",
                                !.data.status_overview = countByUser(nodes, o.user)])
  /\ UNCHANGED <<nodes, samples, nextId, timers, live, stopped, checks, phase, bootSnap, aux>>

\* getOverview: await the reads of the health checks of the nodes listed
OverviewChecks(o) ==
  /\ o.kind = "overview" /\ o.pc = "counts"
  /\ ops' = (ops (-) One(o))
              (+) One([o EXCEPT !.pc = "checks",
                                !.data.services = {[sv EXCEPT !.checks = samples[sv.id]] : sv \in @}])
  /\ UNCHANGED <<nodes, samples, nextId, timers, live, stopped, checks, phase, bootSnap, aux>>

\* getOverview that caches its report without a time to live
OverviewSetForever(o) ==
  /\ o.kind = "overview" /\ o.pc = "checks"
  /\ LET data == [o.data EXCEPT !.timestamp = now]
     IN /\ cache' = cacheSet(cache, o.user, data, 0, now)
        /\ overview' = <<[user |-> o.user, data |-> data, cached |-> FALSE]>>
  /\ ops' = ops (-) One(o)
  /\ UNCHANGED <<nodes, samples, nextId, timers, live, stopped, checks, phase,
                 bootSnap, healthChecks, buckets, now>>

\* getOverview: the report is built, cached for DASHBOARD_CACHE_TTL and
\* returned
OverviewSet(o) ==
  /\ o.kind = "overview" /\ o.pc = "checks"
  /\ LET data == [o.data EXCEPT !.timestamp = now]
     IN /\ cache' = cacheSet(cache, o.user, data, DashboardCacheTtl, now)
        /\ overview' = <<[user |-> o.user, data |-> data, cached |-> FALSE]>>
  /\ ops' = ops (-) One(o)
  /\ UNCHANGED <<nodes, samples, nextId, timers, live, stopped, checks, phase,
                 bootSnap, healthChecks, buckets, now>>

(* ---------------------------- specification --------------------------- *)
\* The whole program, for one node; time is not part of the state, and the
\* requests carry one value of check_interval.
FullIntervals == {MinCheckInterval}

Next ==
  \/ Listen
  \/ BootRead
  \/ BootStart
  \/ StopAll
  \/ Restart
  \/ \E ft \in Thresholds, ci \in FullIntervals :
       CreateNode(Owner, ft, ci) /\ nextId <= MaxFullNodes
  \/ \E o \in BagToSet(ops) : CreateStart(o)
  \/ \E id \in NodeIds, ft \in Thresholds \cup {0}, ci \in FullIntervals \cup {0} :
       UpdateWrite(Owner, id, ft, ci)
  \/ \E o \in BagToSet(ops) : UpdateCont(o)
  \/ \E id \in NodeIds : DeleteWrite(Owner, id)
  \/ \E o \in BagToSet(ops) : DeleteStop(o)
  \/ \E o \in BagToSet(ops) : DeleteSamples(o)
  \/ \E id \in NodeIds : PauseRead(Owner, id)
  \/ \E o \in BagToSet(ops) : PauseWrite(o)
  \/ \E o \in BagToSet(ops) : PauseStop(o)
  \/ \E id \in NodeIds : ResumeRead(Owner, id)
  \/ \E o \in BagToSet(ops) : ResumeWrite(o)
  \/ \E o \in BagToSet(ops) : ResumeStart(o)
  \/ \E t \in live : TickFire(t) /\ CanCheck(t.node, MaxChecks, MaxSamples)
  \/ \E c \in BagToSet(checks) : CheckRead(c)
  \/ \E id \in NodeIds : ManualRead(Owner, id)
  \/ \E c \in BagToSet(checks) : CheckCont(c)
  \/ \E c \in BagToSet(checks), success \in BOOLEAN : ProbeDone(c, success)
  \/ \E c \in BagToSet(checks) : ApplySuccess(c)
  \/ \E c \in BagToSet(checks) : ApplyFailure(c)
  \/ \E c \in BagToSet(checks) : SetStatus(c)

Spec == Init /\ [][Next]_vars

\* One node with failure_threshold >= 3 and failing scheduled probes, applied
\* one at a time.
SeqThresholds == (WarningFailures + 1)..(MaxThreshold + 1)

NextSeq ==
  \/ BootRead
  \/ BootStart
  \/ \E ft \in SeqThresholds, ci \in Intervals :
       CreateNode(Owner, ft, ci) /\ nextId <= MaxFullNodes
  \/ \E o \in BagToSet(ops) : CreateStart(o)
  \/ \E t \in live : TickFire(t) /\ CanCheck(t.node, 1, MaxSeqSamples)
  \/ \E c \in BagToSet(checks) : CheckRead(c)
  \/ \E c \in BagToSet(checks) : CheckCont(c)
  \/ \E c \in BagToSet(checks) : ProbeDone(c, FALSE)
  \/ \E c \in BagToSet(checks) : ApplyFailure(c)
  \/ \E c \in BagToSet(checks) : SetStatus(c)

SpecSeq == Init /\ [][NextSeq]_vars

\* The engine and the node service for MaxNodes nodes of failure_threshold 1,
\* one call and one check in flight at a time.
NextEngine ==
  \/ Listen
  \/ BootRead
  \/ BootStart
  \/ StopAll
  \/ Restart
  \/ \E ci \in Intervals : CreateNode(Owner, 1, ci) /\ ops = EmptyBag
  \/ \E o \in BagToSet(ops) : CreateStart(o)
  \/ \E id \in NodeIds, ci \in Intervals : UpdateWrite(Owner, id, 0, ci) /\ ops = EmptyBag
  \/ \E o \in BagToSet(ops) : UpdateCont(o)
  \/ \E id \in NodeIds : DeleteWrite(Owner, id) /\ ops = EmptyBag
  \/ \E o \in BagToSet(ops) : DeleteStop(o)
  \/ \E o \in BagToSet(ops) : DeleteSamples(o)
  \/ \E id \in NodeIds : PauseRead(Owner, id) /\ ops = EmptyBag
  \/ \E o \in BagToSet(ops) : PauseWrite(o)
  \/ \E o \in BagToSet(ops) : PauseStop(o)
  \/ \E id \in NodeIds : ResumeRead(Owner, id) /\ ops = EmptyBag
  \/ \E o \in BagToSet(ops) : ResumeWrite(o)
  \/ \E o \in BagToSet(ops) : ResumeStart(o)
  \/ \E t \in live : TickFire(t) /\ CanCheck(t.node, 1, MaxEngineSamples)
  \/ \E c \in BagToSet(checks) : CheckRead(c)
  \/ \E c \in BagToSet(checks) : CheckCont(c)
  \/ \E c \in BagToSet(checks), success \in BOOLEAN : ProbeDone(c, success)
  \/ \E c \in BagToSet(checks) : ApplySuccess(c)
  \/ \E c \in BagToSet(checks) : ApplyFailure(c)
  \/ \E c \in BagToSet(checks) : SetStatus(c)

SpecEngine == Init /\ [][NextEngine]_vars

\* The whole program for one node with one callback or call at a time: no two
\* of them overlap.
Idle == checks = EmptyBag /\ ops = EmptyBag

NextSerial ==
  \/ Listen
  \/ BootRead
  \/ BootStart
  \/ StopAll /\ Idle
  \/ Restart
  \/ \E ft \in Thresholds, ci \in Intervals :
       CreateNode(Owner, ft, ci) /\ nextId <= MaxFullNodes /\ Idle
  \/ \E o \in BagToSet(ops) : CreateStart(o)
  \/ \E id \in NodeIds, ft \in Thresholds \cup {0}, ci \in Intervals \cup {0} :
       UpdateWrite(Owner, id, ft, ci) /\ Idle
  \/ \E o \in BagToSet(ops) : UpdateCont(o)
  \/ \E id \in NodeIds : DeleteWrite(Owner, id) /\ Idle
  \/ \E o \in BagToSet(ops) : DeleteStop(o)
  \/ \E o \in BagToSet(ops) : DeleteSamples(o)
  \/ \E id \in NodeIds : PauseRead(Owner, id) /\ Idle
  \/ \E o \in BagToSet(ops) : PauseWrite(o)
  \/ \E o \in BagToSet(ops) : PauseStop(o)
  \/ \E id \in NodeIds : ResumeRead(Owner, id) /\ Idle
  \/ \E o \in BagToSet(ops) : ResumeWrite(o)
  \/ \E o \in BagToSet(ops) : ResumeStart(o)
  \/ \E t \in live : TickFire(t) /\ CanCheck(t.node, 1, MaxSamples) /\ Idle
  \/ \E c \in BagToSet(checks) : CheckRead(c)
  \/ \E id \in NodeIds : ManualRead(Owner, id) /\ Idle
  \/ \E c \in BagToSet(checks) : CheckCont(c)
  \/ \E c \in BagToSet(checks), success \in BOOLEAN : ProbeDone(c, success)
  \/ \E c \in BagToSet(checks) : ApplySuccess(c)
  \/ \E c \in BagToSet(checks) : ApplyFailure(c)
  \/ \E c \in BagToSet(checks) : SetStatus(c)

SpecSerial == Init /\ [][NextSerial]_vars

\* The serial program together with test calls, which may overlap a
\* callback or call in flight.
NextTest ==
  \/ NextSerial
  \/ \E id \in NodeIds : TestCheckRead(Owner, id)
  \/ TestConnection
  \/ \E o \in BagToSet(ops), outcome \in {"response", "throws"} :
       HttpCheckDone(o, outcome)

SpecTest == Init /\ [][NextTest]_vars

\* The engine for two nodes, with ticks that overlap and store calls of
\* checks that may reject.
NextFaults ==
  \/ NextEngine
  \/ \E t \in live : TickFire(t) /\ CanCheck(t.node, MaxChecks, MaxEngineSamples)
  \/ \E c \in BagToSet(checks) : CheckThrows(c)

SpecFaults == Init /\ [][NextFaults]_vars

\* The serial program together with the calls of the users who do not own
\* the node.
Others == Users \ {Owner}

NextOwner ==
  \/ NextSerial
  \/ \E u \in Users, id \in NodeIds : GetRead(u, id) /\ Idle
  \/ \E o \in BagToSet(ops) : GetDone(o)
  \/ \E u \in Others, id \in NodeIds, ft \in Thresholds \cup {0}, ci \in Intervals \cup {0} :
       UpdateWrite(u, id, ft, ci) /\ Idle
  \/ \E u \in Others, id \in NodeIds : DeleteWrite(u, id) /\ Idle
  \/ \E u \in Others, id \in NodeIds : PauseRead(u, id) /\ Idle
  \/ \E u \in Others, id \in NodeIds : ResumeRead(u, id) /\ Idle
  \/ \E u \in Users, id \in NodeIds : TestCheckRead(u, id) /\ Idle
  \/ \E o \in BagToSet(ops), outcome \in {"response", "throws"} :
       HttpCheckDone(o, outcome)
  \/ \E u \in Others, id \in NodeIds : ManualRead(u, id) /\ Idle

SpecOwner == Init /\ [][NextOwner]_vars

\* getTelemetryBuckets applied to every store of at most MaxBucketSamples
\* health check documents with these times of creation (ms).
SampleTimes == {0, MsPerSecond - 1, MsPerSecond, 2 * MsPerSecond + 500}

SampleDocs ==
  {HealthCheck(id, t, ok) : id \in NodeIds, t \in SampleTimes, ok \in BOOLEAN}

InitBuckets ==
  /\ InitEngine
  /\ InitDashboard
  /\ healthChecks \in UNION {[1..n -> SampleDocs] : n \in 0..MaxBucketSamples}
  /\ now = 0

NextBuckets ==
  \E nodeIds \in SUBSET NodeIds, since \in SampleTimes \cup {1},
     bucketSeconds \in 1..MaxBucketSeconds :
    Buckets(nodeIds, since, bucketSeconds)

SpecBuckets == InitBuckets /\ [][NextBuckets]_vars

\* getTelemetryBuckets applied to a train of 10 health check documents of one
\* node, 3 seconds apart from start, with alternating success; the call is
\* made 27 or 30 seconds after start.
Train(id, start, first) ==
  [k \in 1..10 |->
     HealthCheck(id, start + 3 * (k - 1) * MsPerSecond,
                 IF k % 2 = 1 THEN first ELSE ~first)]

TrainStarts ==
  {DefaultBucketSeconds * MsPerSecond + k * (MsPerSecond \div 2) : k \in 0..MaxTrainStart}

InitTrain ==
  /\ InitEngine
  /\ InitDashboard
  /\ \E id \in NodeIds, start \in TrainStarts, first \in BOOLEAN :
       /\ healthChecks = Train(id, start, first)
       /\ now \in {start + 27 * MsPerSecond, start + 30 * MsPerSecond}

\* buckets(node_ids = [n], since = now - 30 s, bucket_seconds = 30)
NextTrain ==
  Buckets({healthChecks[1].node_id}, now - 30 * MsPerSecond, 30)

SpecTrain == InitTrain /\ [][NextTrain]_vars

\* The node service, the engine and getOverview for one node, one callback
\* or call at a time, with a clock.
ClockStep == (DashboardCacheTtl * MsPerSecond) \div 2

\* time passes
Advance ==
  /\ now < MaxTicks * ClockStep
  /\ now' = now + ClockStep
  /\ UNCHANGED <<nodes, samples, nextId, timers, live, stopped, checks, ops, phase,
                 bootSnap, healthChecks, buckets, cache, overview>>

NextDashboard ==
  \/ Listen
  \/ \E ft \in Thresholds :
       CreateNode(Owner, ft, MinCheckInterval) /\ nextId <= MaxFullNodes /\ Idle
  \/ \E o \in BagToSet(ops) : CreateStart(o)
  \/ \E id \in NodeIds : PauseRead(Owner, id) /\ Idle
  \/ \E o \in BagToSet(ops) : PauseWrite(o)
  \/ \E o \in BagToSet(ops) : PauseStop(o)
  \/ \E id \in NodeIds : ResumeRead(Owner, id) /\ Idle
  \/ \E o \in BagToSet(ops) : ResumeWrite(o)
  \/ \E o \in BagToSet(ops) : ResumeStart(o)
  \/ \E t \in live : TickFire(t) /\ CanCheck(t.node, 1, MaxSamples) /\ Idle
  \/ \E c \in BagToSet(checks) : CheckRead(c)
  \/ \E c \in BagToSet(checks) : CheckCont(c)
  \/ \E c \in BagToSet(checks), success \in BOOLEAN : ProbeDone(c, success)
  \/ \E c \in BagToSet(checks) : ApplySuccess(c)
  \/ \E c \in BagToSet(checks) : ApplyFailure(c)
  \/ \E c \in BagToSet(checks) : SetStatus(c)
  \/ Advance
  \/ \E u \in Users : OverviewCall(u) /\ Idle
  \/ \E o \in BagToSet(ops) : OverviewCounts(o)
  \/ \E o \in BagToSet(ops) : OverviewChecks(o)
  \/ \E o \in BagToSet(ops) : OverviewSet(o)

SpecDashboard == Init /\ [][NextDashboard]_vars

\* The serial program for one node whose expected_status_codes updates may
\* change, with probes that get a response or none: no check overlaps an
\* update.
CodeSets == {{OkStatus}, {ErrorStatus}, {OkStatus, ErrorStatus}}

NextConfig ==
  \/ Listen
  \/ BootRead
  \/ BootStart
  \/ Restart
  \/ \E ft \in Thresholds, ci \in Intervals :
       CreateNode(Owner, ft, ci) /\ nextId <= MaxFullNodes /\ Idle
  \/ \E o \in BagToSet(ops) : CreateStart(o)
  \/ \E id \in NodeIds, ft \in Thresholds \cup {0}, codes \in CodeSets \cup {{}} :
       UpdateWriteData(Owner, id, ft, 0, codes) /\ Idle
  \/ \E o \in BagToSet(ops) : UpdateCont(o)
  \/ \E t \in live : TickFire(t) /\ CanCheck(t.node, 1, MaxConfigSamples) /\ Idle
  \/ \E c \in BagToSet(checks) : CheckRead(c)
  \/ \E c \in BagToSet(checks) : CheckCont(c)
  \/ \E c \in BagToSet(checks), fetched \in {"throws", "response"},
        status \in {OkStatus, ErrorStatus} :
       Probe(c, fetched, status, "read")
  \/ \E c \in BagToSet(checks) : ApplySuccess(c)
  \/ \E c \in BagToSet(checks) : ApplyFailure(c)
  \/ \E c \in BagToSet(checks) : SetStatus(c)

SpecConfig == Init /\ [][NextConfig]_vars

\* One node with a probe started by a tick in flight while a manual check of
\* the node is triggered: the manual check's probe is the later of the two,
\* and no check starts after it.
TickProbing(id) == \E d \in ChecksOf(id) : d.kind = "tick" /\ d.pc = "fetch"

NextOrder ==
  \/ Listen
  \/ \E ft \in Thresholds :
       CreateNode(Owner, ft, MinCheckInterval) /\ nextId <= MaxFullNodes
  \/ \E o \in BagToSet(ops) : CreateStart(o)
  \/ \E t \in live : TickFire(t) /\ CanCheck(t.node, MaxChecks, MaxSamples)
  \/ \E c \in BagToSet(checks) : CheckRead(c)
  \/ \E id \in NodeIds : ManualRead(Owner, id) /\ TickProbing(id)
  \/ \E c \in BagToSet(checks) : CheckCont(c)
  \/ \E c \in BagToSet(checks), success \in BOOLEAN : ProbeDone(c, success)
  \/ \E c \in BagToSet(checks) : ApplySuccess(c)
  \/ \E c \in BagToSet(checks) : ApplyFailure(c)
  \/ \E c \in BagToSet(checks) : SetStatus(c)

SpecOrder == Init /\ [][NextOrder]_vars
\* One node whose probes all fail, with ticks and manual checks that overlap
\* each other and update and pause calls: no successful probe, no resume, no
\* delete, no restart.
NextFailing ==
  \/ Listen
  \/ \E ft \in Thresholds :
       CreateNode(Owner, ft, MinCheckInterval) /\ nextId <= MaxFullNodes
  \/ \E o \in BagToSet(ops) : CreateStart(o)
  \/ \E id \in NodeIds, ft \in Thresholds : UpdateWrite(Owner, id, ft, 0)
  \/ \E o \in BagToSet(ops) : UpdateCont(o)
  \/ \E id \in NodeIds : PauseRead(Owner, id)
  \/ \E o \in BagToSet(ops) : PauseWrite(o)
  \/ \E o \in BagToSet(ops) : PauseStop(o)
  \/ \E t \in live : TickFire(t) /\ CanCheck(t.node, MaxChecks, MaxFailSamples)
  \/ \E c \in BagToSet(checks) : CheckRead(c)
  \/ \E id \in NodeIds : ManualRead(Owner, id)
  \/ \E c \in BagToSet(checks) : CheckCont(c)
  \/ \E c \in BagToSet(checks) : ProbeDone(c, FALSE)
  \/ \E c \in BagToSet(checks) : ApplyFailure(c)
  \/ \E c \in BagToSet(checks) : SetStatus(c)

SpecFailing == Init /\ [][NextFailing]_vars
\* The serial program for one node under fair scheduling: a process that
\* runs does not stop in the middle of a call or callback, every store call
\* and every fetch ends, and a timer that is not cleared keeps firing.
Continue ==
  \/ BootStart
  \/ \E o \in BagToSet(ops) :
       \/ CreateStart(o) \/ UpdateCont(o) \/ DeleteStop(o) \/ DeleteSamples(o)
       \/ PauseWrite(o) \/ PauseStop(o) \/ ResumeWrite(o) \/ ResumeStart(o)
  \/ \E c \in BagToSet(checks) :
       \/ CheckRead(c) \/ CheckCont(c) \/ ApplySuccess(c) \/ ApplyFailure(c)
       \/ SetStatus(c)
       \/ \E success \in BOOLEAN : ProbeDone(c, success)

\* a tick of a live timer, when no call or callback is running
Ticking == \E t \in live : TickFire(t) /\ CanCheck(t.node, 1, MaxSamples) /\ Idle

NextLive ==
  \/ Listen
  \/ BootRead
  \/ BootStart
  \/ StopAll /\ Idle
  \/ Restart /\ Idle
  \/ \E ft \in Thresholds, ci \in Intervals :
       CreateNode(Owner, ft, ci) /\ nextId <= MaxFullNodes /\ Idle
  \/ \E o \in BagToSet(ops) : CreateStart(o)
  \/ \E id \in NodeIds, ft \in Thresholds \cup {0}, ci \in Intervals \cup {0} :
       UpdateWrite(Owner, id, ft, ci) /\ Idle
  \/ \E o \in BagToSet(ops) : UpdateCont(o)
  \/ \E id \in NodeIds : DeleteWrite(Owner, id) /\ Idle
  \/ \E o \in BagToSet(ops) : DeleteStop(o)
  \/ \E o \in BagToSet(ops) : DeleteSamples(o)
  \/ \E id \in NodeIds : PauseRead(Owner, id) /\ Idle
  \/ \E o \in BagToSet(ops) : PauseWrite(o)
  \/ \E o \in BagToSet(ops) : PauseStop(o)
  \/ \E id \in NodeIds : ResumeRead(Owner, id) /\ Idle
  \/ \E o \in BagToSet(ops) : ResumeWrite(o)
  \/ \E o \in BagToSet(ops) : ResumeStart(o)
  \/ Ticking
  \/ \E c \in BagToSet(checks) : CheckRead(c)
  \/ \E id \in NodeIds : ManualRead(Owner, id) /\ Idle
  \/ \E c \in BagToSet(checks) : CheckCont(c)
  \/ \E c \in BagToSet(checks), success \in BOOLEAN : ProbeDone(c, success)
  \/ \E c \in BagToSet(checks) : ApplySuccess(c)
  \/ \E c \in BagToSet(checks) : ApplyFailure(c)
  \/ \E c \in BagToSet(checks) : SetStatus(c)

SpecLive ==
  /\ Init
  /\ [][NextLive]_vars
  /\ WF_vars(Continue)
  /\ SF_vars(Ticking)
(* ------------------------------- claims ------------------------------- *)
TickProbes(id) ==
  BagCardinality([c \in {x \in InFlight(id) : x.kind = "tick"} |-> checks[c]])

\* C1: for every node at most one probe started by a timer tick is in flight
\* at any time (a tick that fires while the previous tick's probe has not
\* completed starts no probe).
C1_AtMostOneProbeInFlight == \A id \in NodeIds : TickProbes(id) <= 1

Monitored == {"active", "warning", "down"}

\* the status a node with threshold ft has after i failures in a row
SeqStatus(i, ft) ==
  IF i <= 1 THEN "active" ELSE IF i < ft THEN "warning" ELSE "down"

\* C2: a node with failure_threshold >= 3, active with no failures, that
\* receives only failed scheduled probes one at a time has, after the i-th of
\* them, consecutive_failures = i and status active (i = 1), warning
\* (2 <= i < threshold) or down (i >= threshold).
C2_FailureLadder ==
  \A id \in NodeIds :
    (nodes[id] # NullDoc /\ checks = EmptyBag) =>
      /\ nodes[id].consecutive_failures = samples[id]
      /\ nodes[id].status = SeqStatus(samples[id], nodes[id].failure_threshold)

\* C2's case: the failures have gone past the threshold, through warning
C2_Witness ==
  \E id \in NodeIds :
    /\ checks = EmptyBag
    /\ nodes[id].status = "down"
    /\ nodes[id].failure_threshold > WarningFailures + 1
    /\ samples[id] > nodes[id].failure_threshold

\* C3: after a successful probe has been applied to a node that is active,
\* warning or down, its consecutive_failures is 0 and its status is active.
C3_SuccessResets ==
  [][\A c \in BagToSet(checks) :
       (ApplySuccess(c) /\ nodes[c.node].status \in Monitored) =>
         /\ nodes'[c.node].consecutive_failures = 0
         /\ nodes'[c.node].status = "active"]_vars

\* C4: a node whose status is down has consecutive_failures >= its current
\* failure_threshold, in every reachable state.
C4_DownAtThreshold ==
  \A id \in NodeIds :
    nodes[id].status = "down" =>
      nodes[id].consecutive_failures >= nodes[id].failure_threshold

\* C5: a node whose status is warning has 2 <= consecutive_failures < its
\* current failure_threshold, in every reachable state.
C5_WarningBelowThreshold ==
  \A id \in NodeIds :
    nodes[id].status = "warning" =>
      /\ nodes[id].consecutive_failures >= WarningFailures
      /\ nodes[id].consecutive_failures < nodes[id].failure_threshold

\* no node service call on the node is in flight
NoCallOn(id) == \A o \in BagToSet(ops) : o.node # id

\* C6: for every existing node, while the engine is up and no lifecycle
\* operation on the node is in progress, its status is paused if and only if
\* the registry holds no timer for it.
C6_PausedIffNoTimer ==
  \A id \in NodeIds :
    (nodes[id] # NullDoc /\ phase = "up" /\ NoCallOn(id)) =>
      (nodes[id].status = "paused" <=> timers[id] = 0)

\* a pause call on the node has written paused and not yet called stopNode
InPauseWindow(id) ==
  \E o \in BagToSet(ops) : o.kind = "pause" /\ o.node = id /\ o.pc = "stop"

\* C7: a node whose stored status is paused is not in the timer registry,
\* except between a PauseNode call's status write and its stop_node call.
C7_PausedNotRegistered ==
  \A id \in NodeIds :
    (nodes[id].status = "paused" /\ timers[id] # 0) => InPauseWindow(id)

\* C8: at all times the number of registered timers is at most the number of
\* stored nodes whose status is active, warning or down.
C8_ActiveCountBound ==
  activeCount <= Cardinality({id \in NodeIds : nodes[id].status \in Monitored})

\* C9: after stop_node(n) has returned and until the next start_node(n), no
\* tick callback starts a probe of n.
C9_NoLostCancellation ==
  [][\A c \in BagToSet(checks) :
       (c.kind = "tick" /\ CheckCont(c) /\ ~Skips(c)) => c.node \notin stopped]_vars

\* C10: each node has at most one live interval timer, and the live timers
\* are exactly the timers the registry holds, each under its node's id.
C10_NoDoubleInstall ==
  /\ \A id \in NodeIds : Cardinality({t \in live : t.node = id}) <= 1
  /\ \A t \in live : timers[t.node] = t.id
  /\ \A id \in NodeIds :
       timers[id] # 0 => \E t \in live : t.id = timers[id] /\ t.node = id

\* C10's case: both nodes hold a timer, and the timer of node 1 was installed
\* after a start_node that replaced the timer of node 2
C10_Witness ==
  /\ MaxNodes >= 2
  /\ timers[1] = 2
  /\ timers[2] = 1
  /\ Cardinality(live) = 2

\* a pause call on the node has returned and the node is still paused
PausedAtRest(id) ==
  /\ nodes[id].status = "paused"
  /\ id \in stopped
  /\ \A o \in BagToSet(ops) : ~(o.kind = "pause" /\ o.node = id)

\* C11: PauseNode on a scheduled node that is not paused ends with one
\* registered timer less and status paused, and while the node stays paused
\* after the call has returned no sample is recorded for it.
C11_PauseQuiesces ==
  [][/\ \A o \in BagToSet(ops) :
          (PauseStop(o) /\ timers[o.node] # 0) =>
            /\ activeCount' = activeCount - 1
            /\ nodes'[o.node].status = "paused"
     /\ \A c \in BagToSet(checks), success \in BOOLEAN :
          ProbeDone(c, success) => ~PausedAtRest(c.node)]_vars

\* C12: a pause call that finds the node paused returns NODE_ALREADY_PAUSED,
\* and a resume call that finds it active returns NODE_ALREADY_ACTIVE; either
\* call then ends and leaves the node store, the samples and the timer
\* registry as they were.
C12_RejectedCallsChangeNothing ==
  [][\A o \in BagToSet(ops) :
       /\ (PauseWrite(o) /\ o.found /\ o.status = "paused") =>
            /\ pauseResult(o.found, o.status) = "NODE_ALREADY_PAUSED"
            /\ ops' = ops (-) One(o)
            /\ UNCHANGED <<nodes, samples, timers, live>>
       /\ (ResumeWrite(o) /\ o.found /\ o.status = "active") =>
            /\ resumeResult(o.found, o.status) = "NODE_ALREADY_ACTIVE"
            /\ ops' = ops (-) One(o)
            /\ UNCHANGED <<nodes, samples, timers, live>>]_vars

\* C12's case: a pause call has read a paused node, which has samples and is
\* still paused, and is about to return
C12_Witness ==
  \E o \in BagToSet(ops) :
    /\ o.kind = "pause" /\ o.pc = "write" /\ o.found /\ o.status = "paused"
    /\ nodes[o.node].status = "paused"
    /\ samples[o.node] > 0
    /\ timers[o.node] = 0

\* C13: a resume call on a node that is paused, warning or down, run with
\* nothing else in between, ends with status active, consecutive_failures 0
\* and exactly one timer for the node, the one the registry holds.
C13_ResumeRestores ==
  [][\A o \in BagToSet(ops) :
       ResumeStart(o) =>
         /\ nodes'[o.node].status = "active"
         /\ nodes'[o.node].consecutive_failures = 0
         /\ Cardinality({t \in live' : t.node = o.node}) = 1
         /\ \E t \in live' : t.node = o.node /\ timers'[o.node] = t.id]_vars

\* C13's case: a resume call on a node that was warning or down with failures
\* counted and a timer registered has written and is about to start the timer
C13_Witness ==
  \E o \in BagToSet(ops) :
    /\ o.kind = "resume" /\ o.pc = "start" /\ o.status \in {"warning", "down"}
    /\ nodes[o.node].status = "active"
    /\ timers[o.node] # 0
    /\ samples[o.node] >= WarningFailures

\* a delete call on the node has removed it, stopped its timer and returned
Deleted(id) ==
  /\ id < nextId
  /\ nodes[id] = NullDoc
  /\ id \in stopped
  /\ \A o \in BagToSet(ops) : o.node # id

\* C14: once DeleteNode has returned for a node, the sample store holds no
\* sample of that node, in any later state.
C14_NoSamplesAfterDelete == \A id \in NodeIds : Deleted(id) => samples[id] = 0

\* C15: whenever no update call is in progress, the timer registered for a
\* node that is active, warning or down has the node's stored check_interval
\* as its period (an update of check_interval has reinstalled the timer).
C15_TimerAtStoredInterval ==
  (\A o \in BagToSet(ops) : o.kind # "update") =>
    \A t \in live :
      (timers[t.node] = t.id /\ nodes[t.node].status \in Monitored) =>
        t.period = nodes[t.node].check_interval

\* C16: an update call on a node with a registered timer installs a new timer
\* for it if and only if the call changed check_interval and the node is
\* active; otherwise the registered timer stays the one it was.
C16_ReinstallIffIntervalChanged ==
  [][\A o \in BagToSet(ops) :
       (UpdateCont(o) /\ o.found /\ timers[o.node] # 0) =>
         (timers'[o.node] # timers[o.node]
            <=> (o.changed /\ o.status = "active"))]_vars

\* C17: no step of a testCheck or testConnection call, whatever
\* executeHttpCheck does, changes the sample count of a node, a node document
\* or the timer registry.
C17_TestCallsChangeNothing ==
  [][(\/ \E id \in NodeIds : TestCheckRead(Owner, id)
      \/ TestConnection
      \/ \E o \in BagToSet(ops), outcome \in {"response", "throws"} :
           HttpCheckDone(o, outcome))
       => UNCHANGED <<nodes, samples, timers, live>>]_vars

\* C17's case: a test call on a stored node that has samples and a timer has
\* read the node and awaits executeHttpCheck
C17_Witness ==
  \E o \in BagToSet(ops) :
    /\ o.kind = "test" /\ o.found
    /\ nodes[o.node].status \in Monitored
    /\ samples[o.node] > 0
    /\ timers[o.node] # 0

\* C18: when a store call of a tick (the re-read, the sample write, the node
\* update) rejects, or the probe fails, the callback ends, the timers of all
\* nodes stay registered and live, and the other callbacks in flight go on.
C18_FailureIsolation ==
  [][\A c \in BagToSet(checks) :
       (c.kind = "tick" /\ (CheckThrows(c) \/ ProbeDone(c, FALSE))) =>
         /\ timers' = timers
         /\ live' = live
         /\ \A d \in BagToSet(checks) : d.node # c.node => checks'[d] = checks[d]]_vars

\* C18's case: both nodes have a timer and a tick callback in flight, and the
\* callback of one of them awaits the write of its node update
C18_Witness ==
  \E c, d \in BagToSet(checks) :
    /\ c.kind = "tick" /\ c.pc = "apply"
    /\ d.kind = "tick" /\ d.node # c.node
    /\ \A id \in NodeIds : timers[id] # 0
    /\ \E t \in live : t.node = c.node /\ timers[c.node] = t.id

\* the probe failed at transport level
TransportFailure(fetched, body) == fetched = "throws" \/ body = "throws"

\* C19: every probe a tick executes persists exactly one sample, and when the
\* probe fails at transport level (the fetch or the body read throws) that
\* sample has status_code 0 and success false.
C19_TransportFailureRecorded ==
  [][\A c \in BagToSet(checks), fetched \in {"throws", "response"},
        status \in {OkStatus, ErrorStatus}, body \in {"read", "throws"} :
       (c.kind = "tick" /\ Probe(c, fetched, status, body)) =>
         /\ samples'[c.node] = samples[c.node] + 1
         /\ TransportFailure(fetched, body) =>
              probeOutcome(c.snap, fetched, status, body)
                = [status_code |-> NoStatus, success |-> FALSE]]_vars

\* C20: with checks applied one at a time, a failed probe of a node whose
\* failure_threshold is 1 never sets status warning, and the first failed
\* probe of such a node that is active with no failures counted sets
\* consecutive_failures to 1 and status down.
C20_ThresholdOneGoesDown ==
  [][\A c \in BagToSet(checks) :
       /\ (ApplyFailure(c) /\ nodes[c.node].failure_threshold = 1) =>
            /\ failureStatus(nodes'[c.node], c.snap) # "warning"
            /\ (nodes[c.node].status = "active"
                  /\ nodes[c.node].consecutive_failures = 0) =>
                 /\ nodes'[c.node].consecutive_failures = 1
                 /\ failureStatus(nodes'[c.node], c.snap) = "down"
       /\ (SetStatus(c) /\ nodes[c.node].failure_threshold = 1) =>
            /\ c.pc = "down"
            /\ nodes'[c.node].status = "down"]_vars

\* C20's case: the one failed probe of a node with failure_threshold 1 has
\* been applied and the node is down
C20_Witness ==
  \E id \in NodeIds :
    /\ checks = EmptyBag
    /\ nodes[id].failure_threshold = 1
    /\ nodes[id].status = "down"
    /\ nodes[id].consecutive_failures = 1
    /\ samples[id] = 1

\* C21: a node whose status is active and to which at least one probe has
\* been applied has consecutive_failures = 0.
C21_ActiveHasNoFailures ==
  \A id \in NodeIds :
    (nodes[id].status = "active" /\ samples[id] > 0 /\ ChecksOf(id) = {}) =>
      nodes[id].consecutive_failures = 0

\* C22: no probe outcome is applied to a node whose stored status is paused:
\* its status and consecutive_failures do not change while it is paused.
C22_PausedNeverApplied ==
  [][\A c \in BagToSet(checks) :
       ((ApplySuccess(c) \/ ApplyFailure(c) \/ SetStatus(c))
          /\ nodes[c.node].status = "paused") =>
         nodes'[c.node] = nodes[c.node]]_vars

\* the live timers of a node
TimersOf(lv, id) == {t \in lv : t.node = id}

\* C23: when CreateNode returns, the node is stored with status active,
\* consecutive_failures = 0 and last_check_at null, exactly one timer is
\* registered for it, with period check_interval, and the node has no sample
\* and no check in flight (there is no immediate probe: a sample needs a tick
\* to fire first).
C23_CreateStartsOneTimer ==
  [][\A o \in BagToSet(ops) :
       CreateStart(o) =>
         /\ nodes'[o.node].status = "active"
         /\ nodes'[o.node].consecutive_failures = 0
         /\ nodes'[o.node].last_check_at = "null"
         /\ Cardinality(TimersOf(live', o.node)) = 1
         /\ \A t \in TimersOf(live', o.node) :
              t.id = timers'[o.node] /\ t.period = nodes'[o.node].check_interval
         /\ samples'[o.node] = 0
         /\ \A c \in BagToSet(checks') : c.node # o.node]_vars

\* C23's case: a create call has returned, its node is scheduled and no tick
\* has fired for it yet, while another node has a check in flight
C23_Witness ==
  \E id \in Known :
    /\ ops = EmptyBag
    /\ nodes[id].status = "active" /\ nodes[id].last_check_at = "null"
    /\ timers[id] # 0
    /\ samples[id] = 0 /\ ChecksOf(id) = {}
    /\ checks # EmptyBag

\* C24: when start() completes, on a registry that was empty and with no
\* node service call in flight, the registry holds exactly one timer for each
\* stored node whose status is active, with the node's check_interval as its
\* period, and no timer for any other node.
C24_BootStartsActiveNodes ==
  [][(BootStart /\ activeCount = 0 /\ live = {} /\ ops = EmptyBag) =>
       \A id \in NodeIds :
         IF nodes'[id].status = "active"
         THEN /\ Cardinality(TimersOf(live', id)) = 1
              /\ \A t \in TimersOf(live', id) :
                   t.id = timers'[id] /\ t.period = nodes'[id].check_interval
         ELSE timers'[id] = 0 /\ TimersOf(live', id) = {}]_vars

\* C24's case: start() has read the store, which holds an active node and a
\* node that is warning or down, and is about to start the nodes it read
C24_Witness ==
  /\ phase = "booting"
  /\ \E id \in NodeIds : nodes[id].status = "active" /\ <<id, nodes[id].check_interval>> \in bootSnap
  /\ \E id \in NodeIds : nodes[id].status \in {"warning", "down"}

\* C25: when stopAll() returns, activeCount() = 0, isMonitoring is false for
\* every node and no interval timer is left to fire (a tick fires only for
\* a timer that startNode has put in the registry); stopAll changes no node document and no sample, and leaves the
\* checks in flight as they are: a probe in flight after stopAll still
\* persists its sample when its fetch ends.
C25_StopAllCancelsEveryTimer ==
  [][/\ StopAll =>
          /\ activeCount' = 0
          /\ \A id \in NodeIds : ~isMonitoring(Eng', id)
          /\ live' = {}
          /\ nodes' = nodes /\ samples' = samples /\ checks' = checks
     /\ \A t \in live : TickFire(t) => timers[t.node] = t.id
     /\ \A c \in BagToSet(checks), success \in BOOLEAN :
          (phase = "down" /\ c.pc = "fetch" /\ ProbeDone(c, success)) =>
            samples'[c.node] = samples[c.node] + 1]_vars

\* C25's case: stopAll() has returned while a probe is in flight
C25_Witness ==
  /\ phase = "down"
  /\ activeCount = 0
  /\ \E c \in BagToSet(checks) : c.pc = "fetch"

\* the calls that name a node of the acting user
OwnedCalls == {"get", "update", "pause", "resume", "delete", "test"}

\* the call names a node that another user owns
Foreign(o) == nodes[o.node] # NullDoc /\ nodes[o.node].user_id # o.user

\* the message key the call returns, given what it holds
callResult(o) ==
  CASE o.kind = "get" -> getResult(o.found)
    [] o.kind = "update" -> updateResult(o.found)
    [] o.kind = "delete" -> deleteResult(o.found)
    [] o.kind = "pause" -> pauseResult(o.found, o.status)
    [] o.kind = "resume" -> resumeResult(o.found, o.status)
    [] o.kind = "test" -> testResult(o.found, "response")

\* the call is where its first store call has left it
AtFirstReturn(o) ==
  o.pc = CASE o.kind = "get" -> "return"
           [] o.kind = "update" -> "cont"
           [] o.kind = "delete" -> "stop"
           [] o.kind \in {"pause", "resume"} -> "write"
           [] o.kind = "test" -> "fetch"

\* the call holds no document
HoldsNone(o) == ~o.found /\ o.status = "null" /\ o.check_interval = 0

\* C26: a getById, update, pause, resume, delete or testCheck call that names
\* a node owned by another user holds what a call naming a node that does not
\* exist holds (no document), returns NODE_NOT_FOUND as that call does, and
\* its steps (those that change the calls in flight while the process runs
\* on) change no node document, no sample and no timer.
C26_ForeignNodeIsNotFound ==
  [][/\ \A o \in BagToSet(ops') \ BagToSet(ops) :
          (/\ o.kind \in OwnedCalls /\ AtFirstReturn(o)
           /\ (Foreign(o) \/ nodes[o.node] = NullDoc)) =>
            HoldsNone(o) /\ callResult(o) = "NODE_NOT_FOUND"
     /\ \A o \in BagToSet(ops) \cup BagToSet(ops') :
          (o.kind \in OwnedCalls /\ Foreign(o)) =>
            /\ HoldsNone(o) /\ callResult(o) = "NODE_NOT_FOUND"
            /\ (ops' # ops /\ phase' = phase) =>
                 UNCHANGED <<nodes, samples, timers, live>>]_vars

\* C26's case: a pause call of a user who does not own the node is in flight
\* while the node is active and scheduled
C26_Witness ==
  \E o \in BagToSet(ops) :
    /\ o.kind = "pause" /\ Foreign(o)
    /\ nodes[o.node].status = "active"
    /\ timers[o.node] # 0

\* status, consecutive_failures and last_check_at of a document
Triple(doc) == <<doc.status, doc.consecutive_failures, doc.last_check_at>>

\* the step is a store write of executeCheck for the node, made by a check
\* of one of the kinds
CheckWrites(id, kinds) ==
  \E c \in BagToSet(checks) :
    /\ c.node = id /\ c.kind \in kinds
    /\ ApplySuccess(c) \/ ApplyFailure(c) \/ SetStatus(c)

\* the step is the store write of a pause or resume call for the node
PauseResumeWrites(id) ==
  \E o \in BagToSet(ops) : o.node = id /\ (PauseWrite(o) \/ ResumeWrite(o))

\* the frame of C27, with the kinds of check that may write the triple
UpdateFrame(kinds) ==
  \A id \in NodeIds :
    (nodes[id] # NullDoc /\ nodes'[id] # NullDoc) =>
      /\ nodes'[id].user_id = nodes[id].user_id
      /\ Triple(nodes'[id]) # Triple(nodes[id]) =>
           CheckWrites(id, kinds) \/ PauseResumeWrites(id)
      /\ \A u \in Users, ft \in Thresholds \cup {0}, ci \in Intervals \cup {0} :
           UpdateWrite(u, id, ft, ci) =>
             Triple(nodes'[id]) = Triple(nodes[id])

\* C27 as stated: update never changes a node's user_id, status,
\* consecutive_failures or last_check_at; once a node is created, the three
\* are written only by the tick path (a check that a timer tick started) and
\* by pause and resume, and user_id is never written again.
C27_OnlyTicksWriteTheTriple == [][UpdateFrame({"tick"})]_vars

\* C27 as amended: the same, with the three fields written only by
\* executeCheck, which a timer tick or a manual check runs, and by pause and
\* resume.
C27_UpdateKeepsTheTriple == [][UpdateFrame({"tick", "manual"})]_vars

\* C27's case: an update call has written a new failure_threshold to a node
\* that is down with failures counted, and is about to return
C27_Witness ==
  \E o \in BagToSet(ops) :
    /\ o.kind = "update" /\ o.found
    /\ nodes[o.node].status = "down"
    /\ nodes[o.node].consecutive_failures > 0
    /\ nodes[o.node].failure_threshold > nodes[o.node].consecutive_failures

\* the time since the report cached for the user was built and cached
CachedFor(u) == now - cache[u].value.timestamp

\* C28: a getOverview call made less than 30 seconds after a report was
\* built and cached for the same user returns that report as it was cached,
\* whatever the store holds by then, and reads nothing; a call made more than
\* 30 seconds after it returns nothing from the cache and reads the store,
\* and the report such a call returns and caches is the one of the store as
\* it is then.
C28_OverviewCachedForTtl ==
  [][/\ \A u \in DOMAIN cache :
          /\ (OverviewCall(u) /\ CachedFor(u) < DashboardCacheTtl * MsPerSecond) =>
               /\ overview' = <<[user |-> u, data |-> cache[u].value, cached |-> TRUE]>>
               /\ UNCHANGED <<cache, ops>>
          /\ (OverviewCall(u) /\ CachedFor(u) > DashboardCacheTtl * MsPerSecond) =>
               /\ \E o \in BagToSet(ops') \ BagToSet(ops) : o.kind = "overview" /\ o.user = u
               /\ UNCHANGED <<cache, overview>>
     /\ \A o \in BagToSet(ops) :
          OverviewSet(o) =>
            /\ overview' = <<[user |-> o.user, cached |-> FALSE,
                              data |-> Report(nodes, samples, o.user, now)]>>
            /\ cache'[o.user].value = Report(nodes, samples, o.user, now)]_vars

\* C28's case: the last call returned the cached report of a user whose
\* node has changed status and got a sample since the report was built
C28_Witness ==
  /\ overview # <<>>
  /\ overview[1].cached
  /\ \E sv \in overview[1].data.services :
       /\ nodes[sv.id].status # sv.status
       /\ samples[sv.id] > sv.checks

RECURSIVE SumTotalChecks(_)
SumTotalChecks(r) ==
  IF r = <<>> THEN 0 ELSE Head(r).total_checks + SumTotalChecks(Tail(r))

\* the samples a call of buckets is about: those of the listed nodes with
\* created_at >= since
Selected(b) ==
  {i \in DOMAIN healthChecks :
     /\ healthChecks[i].node_id \in b.node_ids
     /\ healthChecks[i].created_at >= b.since}

\* the key of the bucket of a sample, ts - (ts mod width) computed as
\* floor(ts / width) * width, with width = bucket_seconds * 1000
KeyOf(b, i) ==
  LET width == b.bucket_seconds * MsPerSecond
  IN (healthChecks[i].created_at \div width) * width

\* C29: buckets(node_ids, since, bucket_seconds) puts every sample of the
\* listed nodes with created_at >= since in exactly one returned bucket, the
\* one with the sample's key; the total_checks of the buckets sum to the
\* number of these samples, each bucket's failed_checks is the number of its
\* samples with success = false, the timestamps are strictly ascending and
\* no bucket has total_checks = 0.
C29_BucketsPartitionSamples ==
  \A n \in DOMAIN buckets :
    LET b == buckets[n]
        r == b.result
        In(j) == {i \in Selected(b) : KeyOf(b, i) = r[j].timestamp}
    IN /\ \A i \in Selected(b) :
            Cardinality({j \in DOMAIN r : r[j].timestamp = KeyOf(b, i)}) = 1
       /\ SumTotalChecks(r) = Cardinality(Selected(b))
       /\ \A j \in DOMAIN r :
            /\ r[j].total_checks = Cardinality(In(j))
            /\ r[j].failed_checks =
                 Cardinality({i \in In(j) : ~healthChecks[i].success})
            /\ r[j].total_checks > 0
       /\ \A j, k \in DOMAIN r : j < k => r[j].timestamp < r[k].timestamp

\* C29's case: a call with since > 0 and buckets of 2 seconds returned two
\* buckets, one of them with a failed and a successful sample
C29_Witness ==
  \E n \in DOMAIN buckets :
    /\ buckets[n].since > 0
    /\ buckets[n].bucket_seconds > 1
    /\ Len(buckets[n].result) = 2
    /\ \E j \in DOMAIN buckets[n].result :
         /\ buckets[n].result[j].total_checks = 2
         /\ buckets[n].result[j].failed_checks = 1

RECURSIVE SumFailedChecks(_)
SumFailedChecks(r) ==
  IF r = <<>> THEN 0 ELSE Head(r).failed_checks + SumFailedChecks(Tail(r))

\* the train's ten samples lie in one 30-second window of the epoch
InOneWindow ==
  LET width == DefaultBucketSeconds * MsPerSecond
  IN healthChecks[1].created_at \div width
       = healthChecks[Len(healthChecks)].created_at \div width

\* C30 as stated: for 10 samples of a node 3 seconds apart, from any start
\* time, with alternating success, buckets(node_ids = [n], since = now - 30 s,
\* bucket_seconds = 30) returns exactly one bucket, with total_checks = 10
\* and failed_checks = 5.
C30_OneBucketOfTen ==
  \A n \in DOMAIN buckets :
    /\ Len(buckets[n].result) = 1
    /\ buckets[n].result[1].total_checks = 10
    /\ buckets[n].result[1].failed_checks = 5

\* C30 as amended: the call returns buckets whose total_checks sum to 10 and
\* whose failed_checks sum to 5; it returns exactly one bucket, with
\* total_checks = 10 and failed_checks = 5, when the ten samples lie in one
\* 30-second window of the epoch, and two buckets otherwise.
C30_OneBucketInOneWindow ==
  \A n \in DOMAIN buckets :
    LET r == buckets[n].result
    IN /\ SumTotalChecks(r) = 10
       /\ SumFailedChecks(r) = 5
       /\ Len(r) = IF InOneWindow THEN 1 ELSE 2

\* C30's case: the call was made 30 seconds after the first sample of a train
\* that starts inside a window, not at its start, and returned one bucket
C30_Witness ==
  \E n \in DOMAIN buckets :
    /\ buckets[n].since = healthChecks[1].created_at
    /\ healthChecks[1].created_at % (DefaultBucketSeconds * MsPerSecond) > 0
    /\ Len(buckets[n].result) = 1
    /\ buckets[n].result[1].total_checks = 10

\* the tick callback has re-read the node and found none, or found it paused
ReadGoneOrPaused(c) ==
  c.kind = "tick" /\ c.pc = "got" /\ c.snap.status \in {"null", "paused"}

\* C31: a tick callback that re-read its node and found that it no longer
\* exists or that its status is paused ends there: the registry holds no
\* timer for the node and none of the node's timers is left to fire, the
\* callback starts no probe, no sample is persisted and no node document
\* changes.
C31_SkippedTickCancelsTimer ==
  [][\A c \in BagToSet(checks) :
       (ReadGoneOrPaused(c) /\ CheckCont(c)) =>
         /\ timers'[c.node] = 0
         /\ TimersOf(live', c.node) = {}
         /\ checks' = checks (-) One(c)
         /\ samples' = samples
         /\ nodes' = nodes]_vars

\* C31's case: a tick callback has found its node paused and has cancelled
\* the node's timer itself, before the pause call reached its stopNode
C31_Witness ==
  \E o \in BagToSet(ops) :
    /\ o.kind = "pause" /\ o.pc = "stop"
    /\ nodes[o.node].status = "paused"
    /\ timers[o.node] = 0
    /\ o.node \in stopped
    /\ ChecksOf(o.node) = {}

\* C32: DeleteNode cancels the node's timer, then removes its samples, then
\* removes the node: in every state, a node that is absent from the node
\* store has no timer in the registry and no sample in the sample store.
C32_DeleteOrder ==
  \A id \in NodeIds :
    nodes[id] = NullDoc => (timers[id] = 0 /\ samples[id] = 0)

\* the check of the node that awaits the update of the node, if any, has
\* this success flag
Applies(id, success) ==
  \A d \in BagToSet(checks') : (d.node = id /\ d.pc = "apply") => d.success = success

\* C33: a scheduled probe uses the configuration stored when its tick re-read
\* the node: for a tick that fires after every update call has returned, the
\* sample's success is whether the response status is one of the stored
\* expected_status_codes, and a failed probe goes on to write down exactly
\* when the counter it incremented has reached the stored failure_threshold
\* and the node was not down, whether or not the update reinstalled the
\* timer.
C33_TickUsesStoredConfig ==
  [][\A c \in BagToSet(checks) :
       /\ \A fetched \in {"throws", "response"}, status \in {OkStatus, ErrorStatus} :
            (c.kind = "tick" /\ Probe(c, fetched, status, "read")) =>
              Applies(c.node, /\ fetched = "response"
                              /\ status \in nodes[c.node].expected_status_codes)
       /\ (c.kind = "tick" /\ ApplyFailure(c)) =>
            ((\E d \in BagToSet(checks') : d.node = c.node /\ d.pc = "down")
               <=> /\ nodes'[c.node].consecutive_failures >= nodes[c.node].failure_threshold
                   /\ nodes[c.node].status # "down")]_vars

\* C33's case: updates have changed the expected_status_codes of a node and
\* lowered the failure_threshold of the node, in warning, to the failures it
\* has (such an update leaves the timer alone), and a tick of that timer has
\* since re-read the node and started its probe
C33_Witness ==
  \E c \in BagToSet(checks) :
    /\ c.kind = "tick" /\ c.pc = "fetch"
    /\ ops = EmptyBag
    /\ nodes[c.node].status = "warning"
    /\ nodes[c.node].consecutive_failures >= nodes[c.node].failure_threshold
    /\ nodes[c.node].expected_status_codes = {ErrorStatus}
    /\ c.snap.expected_status_codes = {ErrorStatus}
    /\ c.snap.failure_threshold = nodes[c.node].failure_threshold

\* the probe of a tick of the node is started and its state update is not
\* yet applied
TickUnapplied(id) ==
  \E d \in ChecksOf(id) : d.kind = "tick" /\ d.pc \in {"fetch", "apply"}

\* C34: the state updates of a node are applied in the order in which their
\* probes were started: where a manual check's probe starts while a tick's
\* probe is in flight, the manual check's state update is not applied before
\* the tick's.
C34_UpdatesInProbeOrder ==
  [][\A c \in BagToSet(checks) :
       (c.kind = "manual" /\ (ApplySuccess(c) \/ ApplyFailure(c))) =>
         ~TickUnapplied(c.node)]_vars

\* C35: once a pause call has returned for a node, its stored status stays
\* paused until a resume call writes active (or the node is deleted): no
\* probe in flight at the pause, no later tick and no manual check writes
\* active, warning or down over paused.
C35_PausedUntilResumed ==
  [][\A id \in NodeIds :
       (PausedAtRest(id) /\ nodes'[id] # NullDoc /\ nodes'[id].status # "paused") =>
         \E o \in BagToSet(ops) : o.kind = "resume" /\ o.node = id /\ ResumeWrite(o)]_vars

\* C36: a tick callback of a cancelled timer does not cancel a timer
\* installed later: when the callback read the node as paused and the pause
\* call's stopNode and a whole resume call have run since (the node is stored
\* active, a timer is registered for it and no call on it is in flight), the
\* timer the resume call installed is still registered when the callback has
\* finished.
C36_StaleTickKeepsNewTimer ==
  [][\A c \in BagToSet(checks) :
       (/\ c.kind = "tick" /\ c.pc = "got" /\ c.snap.status = "paused"
        /\ nodes[c.node].status = "active"
        /\ timers[c.node] # 0
        /\ NoCallOn(c.node)
        /\ CheckCont(c)) =>
         /\ timers'[c.node] = timers[c.node]
         /\ TimersOf(live', c.node) = TimersOf(live, c.node)]_vars

\* failed probes of the node that have persisted their sample and await
\* incrementFailures
Unapplied(id) ==
  BagCardinality([c \in {x \in ChecksOf(id) : x.pc = "apply"} |-> checks[c]])

\* C37: no failure increment is lost: while a node gets failed probes only,
\* from ticks and manual checks that may overlap, and no resume or delete,
\* its stored consecutive_failures is the number of failed probes that have
\* been applied (those that have persisted their sample, less those that
\* still await incrementFailures); k probes applied raise it by exactly k.
C37_NoLostIncrement ==
  \A id \in NodeIds :
    nodes[id] # NullDoc =>
      nodes[id].consecutive_failures + Unapplied(id) = samples[id]

\* C37's case: a tick and a manual check of a node overlap, one has
\* incremented the counter and awaits its status write while the other
\* awaits its own increment, and an earlier failure is counted as well
C37_Witness ==
  \E c, d \in BagToSet(checks) :
    /\ c.node = d.node /\ c.kind # d.kind
    /\ c.pc = "apply" /\ ~c.success
    /\ d.pc \in {"warning", "down"}
    /\ nodes[c.node].consecutive_failures >= 2

\* the status changes a failed probe may make
FailureSteps ==
  {<<"active", "warning">>, <<"active", "down">>, <<"warning", "down">>}

\* C38: a failed probe changes a node's status only from active to warning,
\* from active to down or from warning to down, and never from down to
\* warning, also when an update changed failure_threshold between probes.
C38_FailureNeverLiftsDown ==
  [][\A c \in BagToSet(checks) :
       ((ApplyFailure(c) \/ SetStatus(c))
          /\ nodes'[c.node].status # nodes[c.node].status) =>
         <<nodes[c.node].status, nodes'[c.node].status>> \in FailureSteps]_vars

\* the node is stored with a status under which it is monitored, in a
\* process that serves requests, and the sample store has room for a sample
Due(id) ==
  /\ phase = "up"
  /\ nodes[id].status \in Monitored
  /\ samples[id] < MaxSamples

\* a sample of the node has just been persisted, or the node is paused or
\* deleted, or the process has stopped
Served(id) ==
  \/ Unapplied(id) > 0
  \/ nodes[id].status \notin Monitored
  \/ phase # "up"

\* C39: under fair timers and terminating probes, every stored node whose
\* status is active, warning or down is eventually probed again (a new sample
\* of it is persisted) unless it is paused or deleted first, after boot and
\* after any sequence of pause, resume, update and manual check.
C39_MonitoredIsProbedAgain == \A id \in NodeIds : Due(id) ~> Served(id)

====
